---- MODULE Spec2Model ----
(***************************************************************************)
(* Contact relay of alvaro-portfolio-backend: the Express pipeline         *)
(* cors -> express.json -> routes -> 404 / error middleware, and the       *)
(* POST /api/contact handler with its two awaits (transporter.verify and   *)
(* transporter.sendMail).                                                  *)
(*                                                                         *)
(* The repository holds two server sources: src/server.js and              *)
(* src/unnamed/part_000.  Both are modelled; the variable `build` says     *)
(* which of the two is the running program.                                *)
(*                                                                         *)
(* JavaScript strings are sequences of one-character strings.  A           *)
(* JavaScript value that may be undefined is a record [present, val].      *)
(***************************************************************************)
EXTENDS Integers, Sequences, FiniteSets, TLC

VARIABLES build, env, pc, req, handled, validated, transports, probes,
          probeOutcome, mails, sendOutcome, resp

vars == <<build, env, pc, req, handled, validated, transports, probes,
          probeOutcome, mails, sendOutcome, resp>>

(***************************************************************************)
(* Bounds of the model.                                                    *)
(***************************************************************************)
\* number of requests in flight at once
MaxReq == 2
\* longest user-supplied text drawn over the markup alphabet
MaxLen == 2
\* longest email value drawn over the address alphabet
MaxEmailLen == 5

Reqs == 1..MaxReq

(***************************************************************************)
(* JavaScript values and strings.                                          *)
(***************************************************************************)
Undefined == [present |-> FALSE, val |-> <<>>]

Str(s) == [present |-> TRUE, val |-> s]

\* !v for a string-or-undefined value: undefined and "" are falsy
Truthy(v) == v.present /\ v.val # <<>>

\* a || b
Or(a, b) == IF Truthy(a) THEN a ELSE b

\* String(v) and `${v}`
String(v) == IF v.present THEN v.val ELSE <<"u","n","d","e","f","i","n","e","d">>

\* the characters String.prototype.trim removes, among those the model draws
Whitespace == {" "}

RECURSIVE TrimStart(_)
TrimStart(s) ==
    IF s # <<>> /\ Head(s) \in Whitespace THEN TrimStart(Tail(s)) ELSE s

RECURSIVE TrimEnd(_)
TrimEnd(s) ==
    IF s # <<>> /\ s[Len(s)] \in Whitespace
    THEN TrimEnd(SubSeq(s, 1, Len(s) - 1))
    ELSE s

trim(s) == TrimEnd(TrimStart(s))

startsWith(s, w) == Len(w) <= Len(s) /\ SubSeq(s, 1, Len(w)) = w

\* s.split(","), for a one-character separator
RECURSIVE split(_, _)
split(s, sep) ==
    IF \A i \in 1..Len(s) : s[i] # sep
    THEN <<s>>
    ELSE LET i == CHOOSE k \in 1..Len(s) :
                      s[k] = sep /\ \A j \in 1..(k - 1) : s[j] # sep
         IN  <<SubSeq(s, 1, i - 1)>> \o split(SubSeq(s, i + 1, Len(s)), sep)

\* s.replaceAll(ch, rep), for a one-character pattern
RECURSIVE replaceAll(_, _, _)
replaceAll(s, ch, rep) ==
    IF s = <<>> THEN <<>>
    ELSE (IF Head(s) = ch THEN rep ELSE <<Head(s)>>) \o replaceAll(Tail(s), ch, rep)

(***************************************************************************)
(* Helpers of src/server.js.                                               *)
(***************************************************************************)
AmpEntity  == <<"&","a","m","p",";">>
LtEntity   == <<"&","l","t",";">>
GtEntity   == <<"&","g","t",";">>
QuotEntity == <<"&","q","u","o","t",";">>
AposEntity == <<"&","#","0","3","9",";">>

escapeHtml(str) ==
    replaceAll(
      replaceAll(
        replaceAll(
          replaceAll(
            replaceAll(String(str), "&", AmpEntity),
            "<", LtEntity),
          ">", GtEntity),
        "\"", QuotEntity),
      "'", AposEntity)

\* [^\s@]
NotSpaceNorAt(c) == c \notin Whitespace /\ c # "@"

\* /^[^\s@]+@[^\s@]+\.[^\s@]+$/.test(String(s).trim())
isEmail(s) ==
    LET t == trim(String(s))
    IN  \E i \in 1..Len(t) : \E j \in 1..Len(t) :
          /\ 1 < i /\ i + 1 < j /\ j < Len(t)
          /\ t[i] = "@"
          /\ t[j] = "."
          /\ \A k \in (1..Len(t)) \ {i} : NotSpaceNorAt(t[k])

(***************************************************************************)
(* CORS.                                                                   *)
(***************************************************************************)
\* the two server sources of the repository
Builds == {"server.js", "part_000"}

Http    == <<"h","t","t","p",":","/","/">>
Https   == <<"h","t","t","p","s",":","/","/">>
Loop    == <<"1","2","7",".","0",".","0",".","1">>
Local   == <<"l","o","c","a","l","h","o","s","t">>
LiveSrv == <<":","5","5","0","0">>
Vite    == <<":","5","1","7","3">>
Pages   == Https \o <<"a","l","v","1","9","9","9",".","g","i","t","h","u","b",".","i","o">>

baseWhitelist ==
    << Http \o Loop \o LiveSrv,
       Http \o Local \o LiveSrv,
       Http \o Local \o Vite,
       Http \o Loop \o Vite,
       Pages >>

\* (process.env.CORS_ORIGIN || "").split(",").map(trim).filter(Boolean)
envOrigins(e) ==
    LET parts   == split(String(Or(e.CORS_ORIGIN, Str(<<>>))), ",")
        trimmed == [i \in 1..Len(parts) |-> trim(parts[i])]
    IN  SelectSeq(trimmed, LAMBDA w : w # <<>>)

Elems(q) == {q[i] : i \in 1..Len(q)}

\* [...new Set([...baseWhitelist, ...envOrigins])]; read only through some()
WHITELIST(e) == Elems(baseWhitelist) \cup Elems(envOrigins(e))

\* faulty variant: the no-origin shortcut is missing
corsOriginNoShortcut(e, origin) ==
    \E w \in WHITELIST(e) : String(origin) = w \/ startsWith(String(origin), w)

\* corsOptions.origin of src/server.js: TRUE is cb(null, true)
corsOrigin(e, origin) ==
    IF ~Truthy(origin) THEN TRUE
    ELSE \E w \in WHITELIST(e) : origin.val = w \/ startsWith(origin.val, w)

whitelist ==
    << Http \o Loop \o LiveSrv,
       Http \o Local \o LiveSrv,
       Pages >>

\* the origin callback of src/unnamed/part_000
corsOriginP0(origin) ==
    ~Truthy(origin) \/ \E w \in Elems(whitelist) : startsWith(origin.val, w)

corsAllows(bld, e, origin) ==
    IF bld = "server.js" THEN corsOrigin(e, origin) ELSE corsOriginP0(origin)

(***************************************************************************)
(* Responses.                                                              *)
(***************************************************************************)
NoResp == [status |-> 0, type |-> "none", ok |-> FALSE, error |-> <<>>,
           messageId |-> "", text |-> ""]

Json(status, ok, error, messageId) ==
    [status |-> status, type |-> "json", ok |-> ok, error |-> error,
     messageId |-> messageId, text |-> ""]

Send(status, text) ==
    [status |-> status, type |-> "text", ok |-> FALSE, error |-> <<>>,
     messageId |-> "", text |-> text]

\* the error middleware of src/server.js; msg is err.message, in parts
errorMiddleware(msg) ==
    Json(500, FALSE, IF msg # <<>> THEN msg ELSE <<"Error interno">>, "")

\* src/unnamed/part_000 registers no error middleware: Express answers itself
defaultErrorP0 == Send(500, "express error page")

\* the message of the Error the origin callback of src/server.js passes to cb:
\* the fixed text (which ends in an arrow) followed by the origin
corsError(origin) == <<"CORS: origen no permitido ", origin.val>>

corsReject(bld, origin) ==
    IF bld = "server.js" THEN errorMiddleware(corsError(origin)) ELSE defaultErrorP0

\* the GET routes and the 404 fallback
getRoute(bld, route) ==
    IF bld = "server.js"
    THEN CASE route = "GET /health" -> Send(200, "ok")
           [] route = "GET /"       -> Send(200, "Servidor backend funcionando")
           [] OTHER                 -> Json(404, FALSE, <<"Ruta no encontrada">>, "")
    ELSE CASE route = "GET /"       -> Send(200, "Servidor backend funcionando")
           [] OTHER                 -> Send(404, "express not found page")

(***************************************************************************)
(* POST /api/contact: validation and the outbound message.                 *)
(***************************************************************************)
\* faulty variant: the check of mensaje is missing
missingRequiredNoMensaje(b) == ~Truthy(b.nombre) \/ ~Truthy(b.email)

\* !nombre || !email || !mensaje
missingRequired(b) == ~Truthy(b.nombre) \/ ~Truthy(b.email) \/ ~Truthy(b.mensaje)

\* the validation of src/server.js: the 400 it answers, or NoResp when it passes
validate(b) ==
    IF missingRequired(b) THEN Json(400, FALSE, <<"Faltan campos requeridos">>, "")
    ELSE IF ~isEmail(b.email) THEN Json(400, FALSE, <<"Email invalido">>, "")
    ELSE NoResp

\* the validation of src/unnamed/part_000: presence only
validateP0(b) ==
    IF missingRequired(b) THEN Json(400, FALSE, <<"Faltan campos requeridos">>, "")
    ELSE NoResp

NuevoMensajeDe == <<"N","u","e","v","o"," ","m","e","n","s","a","j","e"," ","d","e"," ">>

\* faulty variant: the subject given is dropped from the subject line
subjectNoAsunto(b) == NuevoMensajeDe \o String(b.nombre)

\* asunto ? `(${asunto}) Nuevo mensaje de ${nombre}` : `Nuevo mensaje de ${nombre}`
subject(b) ==
    IF Truthy(b.asunto)
    THEN <<"(">> \o String(b.asunto) \o <<")", " ">> \o NuevoMensajeDe \o String(b.nombre)
    ELSE NuevoMensajeDe \o String(b.nombre)

Dash == Str(<<"-">>)

\* A template literal is the sequence of its pieces: lit is the fixed text that
\* precedes an interpolation, field names the interpolated submission field and
\* val is the interpolated text.
Piece(lit, field, val) == [lit |-> lit, field |-> field, val |-> val]

text(b) ==
    << Piece("Nombre: ", "nombre", String(b.nombre)),
       Piece("\nEmail: ", "email", String(b.email)),
       Piece("\nTelefono: ", "telefono", String(Or(b.telefono, Dash))),
       Piece("\nAsunto: ", "asunto", String(Or(b.asunto, Dash))),
       Piece("\nMensaje:\n", "mensaje", String(b.mensaje)) >>

\* the html of src/server.js: every interpolation goes through escapeHtml
html(b) ==
    << Piece("<h2>Nuevo contacto desde tu portfolio</h2><p><b>Nombre:</b> ",
             "nombre", escapeHtml(b.nombre)),
       Piece("</p><p><b>Email:</b> ", "email", escapeHtml(b.email)),
       Piece("</p><p><b>Telefono:</b> ", "telefono", escapeHtml(Or(b.telefono, Dash))),
       Piece("</p><p><b>Asunto:</b> ", "asunto", escapeHtml(Or(b.asunto, Dash))),
       Piece("</p><p><b>Mensaje:</b></p><pre style=\"white-space:pre-wrap;font-family:inherit\">",
             "mensaje", escapeHtml(b.mensaje)),
       Piece("</pre>", "", <<>>) >>

\* the html of src/unnamed/part_000: the fields are interpolated as they are
htmlP0(b) ==
    << Piece("<h2>Nuevo contacto desde tu portfolio</h2><p><b>Nombre:</b> ",
             "nombre", String(b.nombre)),
       Piece("</p><p><b>Email:</b> ", "email", String(b.email)),
       Piece("</p><p><b>Telefono:</b> ", "telefono", String(Or(b.telefono, Dash))),
       Piece("</p><p><b>Asunto:</b> ", "asunto", String(Or(b.asunto, Dash))),
       Piece("</p><p><b>Mensaje:</b></p><pre style=\"white-space:pre-wrap;font-family:inherit\">",
             "mensaje", String(b.mensaje)),
       Piece("</pre>", "", <<>>) >>

\* faulty variant: the message is addressed to the submitter
mailOptionsToSubmitter(bld, e, b) ==
    [from    |-> <<"\"Portfolio Web\" <">> \o String(e.SMTP_USER) \o <<">">>,
     to      |-> b.email,
     replyTo |-> b.email,
     subject |-> subject(b),
     text    |-> text(b),
     html    |-> IF bld = "server.js" THEN html(b) ELSE htmlP0(b)]

\* the argument of transporter.sendMail
mailOptions(bld, e, b) ==
    [from    |-> <<"\"Portfolio Web\" <">> \o String(e.SMTP_USER) \o <<">">>,
     to      |-> e.CONTACT_TO,
     replyTo |-> b.email,
     subject |-> subject(b),
     text    |-> text(b),
     html    |-> IF bld = "server.js" THEN html(b) ELSE htmlP0(b)]

(***************************************************************************)
(* The handler between its awaits.  Each operator gives the fields of the  *)
(* request's state that the code reaches at its next await or response.    *)
(***************************************************************************)
NoOutcome == [state |-> "none", messageId |-> "", message |-> ""]
Pending   == [state |-> "pending", messageId |-> "", message |-> ""]
Sent(id)  == [state |-> "ok", messageId |-> id, message |-> ""]
Failed(m) == [state |-> "error", messageId |-> "", message |-> m]

\* from the entry of the handler to `await transporter.verify()`, or to the 400
contactHandler(bld, b) ==
    LET v == IF bld = "server.js" THEN validate(b) ELSE validateP0(b)
    IN  IF v # NoResp
        THEN [pc |-> "done", validated |-> FALSE, transports |-> 0, probes |-> 0,
              probeOutcome |-> "none", resp |-> v]
        ELSE [pc |-> "verify", validated |-> TRUE, transports |-> 1, probes |-> 1,
              probeOutcome |-> "pending", resp |-> NoResp]

\* faulty variant: a failed verify() is passed on as the request's error
afterVerifyAbort(bld, e, b, ok) ==
    IF ok
    THEN [pc |-> "send", probeOutcome |-> "ok",
          mails |-> <<mailOptions(bld, e, b)>>, sendOutcome |-> Pending,
          resp |-> NoResp]
    ELSE [pc |-> "done", probeOutcome |-> "failed",
          mails |-> <<>>, sendOutcome |-> NoOutcome,
          resp |-> Json(500, FALSE, <<"verify failed">>, "")]

\* from the settling of verify() to `await transporter.sendMail(...)`: the catch
\* around verify() only logs
afterVerify(bld, e, b, ok) ==
    [pc |-> "send", probeOutcome |-> IF ok THEN "ok" ELSE "failed",
     mails |-> <<mailOptions(bld, e, b)>>, sendOutcome |-> Pending,
     resp |-> NoResp]

\* the catch of the handler: next(err) and the error middleware in src/server.js,
\* the 500 written in place in src/unnamed/part_000
handlerCatch(bld, message) ==
    IF bld = "server.js" THEN errorMiddleware(<<message>>)
    ELSE Json(500, FALSE, <<message>>, "")

\* faulty variant: the response does not look at the outcome of the send
afterSendAlwaysOk(bld, sent, o) ==
    [pc |-> "done", mails |-> sent, resp |-> Json(200, TRUE, <<>>, o.messageId)]

\* faulty variant: a failed send is tried once more
afterSendRetry(bld, sent, o) ==
    IF o.state = "error" /\ Len(sent) < 2
    THEN [pc |-> "send", mails |-> sent \o <<sent[1]>>, resp |-> NoResp]
    ELSE [pc |-> "done", mails |-> sent,
          resp |-> IF o.state = "ok" THEN Json(200, TRUE, <<>>, o.messageId)
                   ELSE handlerCatch(bld, o.message)]

\* from the settling of sendMail() to the response
afterSend(bld, sent, o) ==
    [pc |-> "done", mails |-> sent,
     resp |-> IF o.state = "ok" THEN Json(200, TRUE, <<>>, o.messageId)
              ELSE handlerCatch(bld, o.message)]

\* what the transport can answer to sendMail: a message identifier, or an error;
\* without a recipient the transport refuses the message
MessageIds == {"<id-1@relay>", "<id-2@relay>"}
ErrorMessages == {"Invalid login", "connect ECONNREFUSED"}

sendOutcomes(mail) ==
    IF ~Truthy(mail.to) THEN {Failed("No recipients defined")}
    ELSE {Sent(id) : id \in MessageIds} \cup {Failed(m) : m \in ErrorMessages}

(***************************************************************************)
(* Requests.                                                               *)
(***************************************************************************)
Routes == {"POST /api/contact", "GET /health", "GET /", "GET /other"}

EmptyBody == [nombre |-> Undefined, email |-> Undefined, telefono |-> Undefined,
              mensaje |-> Undefined, asunto |-> Undefined]

NoReq == [route |-> "", origin |-> Undefined, body |-> EmptyBody]

Request(route, origin, body) == [route |-> route, origin |-> origin, body |-> body]

(***************************************************************************)
(* Actions: r is a request being served; Q is the set the arriving request *)
(* is drawn from.                                                          *)
(***************************************************************************)
Init ==
    /\ build \in Builds
    /\ env \in [CONTACT_TO  : {Str(<<"m","e","@","x",".","i","o">>), Undefined},
                CORS_ORIGIN : {Undefined,
                               Str(<<" ">> \o Https \o <<"m","y",".","s","i","t","e"," ",",">>)},
                SMTP_USER   : {Str(<<"m","e">>)}]
    /\ pc = [r \in Reqs |-> "idle"]
    /\ req = [r \in Reqs |-> NoReq]
    /\ handled = [r \in Reqs |-> 0]
    /\ validated = [r \in Reqs |-> FALSE]
    /\ transports = [r \in Reqs |-> 0]
    /\ probes = [r \in Reqs |-> 0]
    /\ probeOutcome = [r \in Reqs |-> "none"]
    /\ mails = [r \in Reqs |-> <<>>]
    /\ sendOutcome = [r \in Reqs |-> NoOutcome]
    /\ resp = [r \in Reqs |-> NoResp]

\* app.use(cors(corsOptions)) with an origin the callback refuses
CorsReject(r, Q) ==
    /\ pc[r] = "idle"
    /\ \E q \in Q :
          /\ ~corsAllows(build, env, q.origin)
          /\ req' = [req EXCEPT ![r] = q]
          /\ resp' = [resp EXCEPT ![r] = corsReject(build, q.origin)]
    /\ pc' = [pc EXCEPT ![r] = "done"]
    /\ UNCHANGED <<build, env, handled, validated, transports, probes,
                   probeOutcome, mails, sendOutcome>>

\* a GET request that passes cors: answered in the same turn
Get(r, Q) ==
    /\ pc[r] = "idle"
    /\ \E q \in Q :
          /\ q.route # "POST /api/contact"
          /\ corsAllows(build, env, q.origin)
          /\ req' = [req EXCEPT ![r] = q]
          /\ resp' = [resp EXCEPT ![r] = getRoute(build, q.route)]
    /\ pc' = [pc EXCEPT ![r] = "done"]
    /\ UNCHANGED <<build, env, handled, validated, transports, probes,
                   probeOutcome, mails, sendOutcome>>

\* a POST /api/contact that passes cors: express.json reads the body
Post(r, Q) ==
    /\ pc[r] = "idle"
    /\ \E q \in Q :
          /\ q.route = "POST /api/contact"
          /\ corsAllows(build, env, q.origin)
          /\ req' = [req EXCEPT ![r] = q]
    /\ pc' = [pc EXCEPT ![r] = "body"]
    /\ UNCHANGED <<build, env, handled, validated, transports, probes,
                   probeOutcome, mails, sendOutcome, resp>>

\* the handler runs up to its first await, or answers 400
ContactHandler(r) ==
    /\ pc[r] = "body"
    /\ LET n == contactHandler(build, req[r].body)
       IN  /\ pc' = [pc EXCEPT ![r] = n.pc]
           /\ handled' = [handled EXCEPT ![r] = @ + 1]
           /\ validated' = [validated EXCEPT ![r] = n.validated]
           /\ transports' = [transports EXCEPT ![r] = n.transports]
           /\ probes' = [probes EXCEPT ![r] = n.probes]
           /\ probeOutcome' = [probeOutcome EXCEPT ![r] = n.probeOutcome]
           /\ resp' = [resp EXCEPT ![r] = n.resp]
    /\ UNCHANGED <<build, env, req, mails, sendOutcome>>

\* verify() settles; the handler builds the message and calls sendMail
VerifySettled(r, ok) ==
    /\ pc[r] = "verify"
    /\ LET n == afterVerify(build, env, req[r].body, ok)
       IN  /\ pc' = [pc EXCEPT ![r] = n.pc]
           /\ probeOutcome' = [probeOutcome EXCEPT ![r] = n.probeOutcome]
           /\ mails' = [mails EXCEPT ![r] = n.mails]
           /\ sendOutcome' = [sendOutcome EXCEPT ![r] = n.sendOutcome]
           /\ resp' = [resp EXCEPT ![r] = n.resp]
    /\ UNCHANGED <<build, env, req, handled, validated, transports, probes>>

\* sendMail() settles; the handler answers
SendSettled(r, o) ==
    /\ pc[r] = "send"
    /\ o \in sendOutcomes(mails[r][Len(mails[r])])
    /\ LET n == afterSend(build, mails[r], o)
       IN  /\ pc' = [pc EXCEPT ![r] = n.pc]
           /\ mails' = [mails EXCEPT ![r] = n.mails]
           /\ resp' = [resp EXCEPT ![r] = n.resp]
    /\ sendOutcome' = [sendOutcome EXCEPT ![r] = o]
    /\ UNCHANGED <<build, env, req, handled, validated, transports, probes,
                   probeOutcome>>

(***************************************************************************)
(* The requests drawn.                                                     *)
(***************************************************************************)
StringsUpTo(A, n) == UNION {[1..k -> A] : k \in 0..n}

\* text over the characters escapeHtml rewrites, and one it leaves alone
MarkupStrings == StringsUpTo({"a", "&", "<", ">", "\"", "'"}, MaxLen)

\* email values over the characters isEmail tells apart
EmailStrings == StringsUpTo({"a", "@", ".", " "}, MaxEmailLen)

AtBC == <<"@","b",".","c">>

BaseBody == [nombre   |-> Str(<<"A","n","a">>),
             email    |-> Str(<<"a">> \o AtBC),
             telefono |-> Undefined,
             mensaje  |-> Str(<<"H","o","l","a">>),
             asunto   |-> Undefined]

\* every way of leaving out or emptying a required field
PresenceBodies ==
    {[BaseBody EXCEPT !.nombre = n, !.email = e, !.mensaje = m] :
        n \in {Undefined, Str(<<>>), BaseBody.nombre},
        e \in {Undefined, Str(<<>>), BaseBody.email, Str(<<"n","o","t","-","a","n","-","e","m","a","i","l">>)},
        m \in {Undefined, Str(<<>>), BaseBody.mensaje}}

EmailBodies == {[BaseBody EXCEPT !.email = Str(s)] : s \in EmailStrings}

MarkupBodies ==
    {[BaseBody EXCEPT !.nombre = Str(s)] : s \in MarkupStrings}
    \cup {[BaseBody EXCEPT !.email = Str(s \o AtBC)] : s \in MarkupStrings}
    \cup {[BaseBody EXCEPT !.telefono = Str(s)] : s \in MarkupStrings}
    \cup {[BaseBody EXCEPT !.asunto = Str(s)] : s \in MarkupStrings}
    \cup {[BaseBody EXCEPT !.mensaje = Str(s)] : s \in MarkupStrings}

RichBodies == PresenceBodies \cup EmailBodies \cup MarkupBodies

EvilPrefixed == Pages \o <<".","e","v","i","l",".","e","x","a","m","p","l","e">>
Evil         == Https \o <<"e","v","i","l",".","e","x","a","m","p","l","e">>
MySite       == Https \o <<"m","y",".","s","i","t","e">>

Origins == {Undefined, Str(Pages), Str(Http \o Local \o Vite), Str(MySite),
            Str(EvilPrefixed), Str(Evil)}

FewBodies == {BaseBody,
              [BaseBody EXCEPT !.mensaje = Undefined],
              [BaseBody EXCEPT !.email = Str(<<"n","o","t","-","a","n","-","e","m","a","i","l">>)],
              [BaseBody EXCEPT !.asunto = Str(<<"H","i">>), !.telefono = Str(<<"1">>)]}

\* one request at a time, with the submission drawn widely
RichRequests ==
    {Request("POST /api/contact", Undefined, b) : b \in RichBodies}
    \cup {Request("POST /api/contact", o, b) : o \in Origins, b \in FewBodies}
    \cup {Request(rt, o, EmptyBody) : rt \in Routes \ {"POST /api/contact"}, o \in Origins}

\* the requests that arrive side by side
SmallRequests ==
    {Request("POST /api/contact", Undefined, b) : b \in FewBodies}
    \cup {Request("POST /api/contact", Str(Evil), BaseBody),
          Request("GET /health", Undefined, EmptyBody)}

AllSendOutcomes ==
    {Sent(id) : id \in MessageIds} \cup {Failed(m) : m \in ErrorMessages}
    \cup {Failed("No recipients defined")}

\* MaxReq requests in flight, interleaved at their awaits
Next ==
    \/ \E r \in Reqs : CorsReject(r, SmallRequests)
    \/ \E r \in Reqs : Get(r, SmallRequests)
    \/ \E r \in Reqs : Post(r, SmallRequests)
    \/ \E r \in Reqs : ContactHandler(r)
    \/ \E r \in Reqs, ok \in BOOLEAN : VerifySettled(r, ok)
    \/ \E r \in Reqs, o \in AllSendOutcomes : SendSettled(r, o)

Spec == Init /\ [][Next]_vars

\* one request, drawn from RichRequests
NextOne ==
    \/ CorsReject(1, RichRequests)
    \/ Get(1, RichRequests)
    \/ Post(1, RichRequests)
    \/ ContactHandler(1)
    \/ \E ok \in BOOLEAN : VerifySettled(1, ok)
    \/ \E o \in AllSendOutcomes : SendSettled(1, o)

SpecOne == Init /\ [][NextOne]_vars

(***************************************************************************)
(* Properties.  What a claim calls absent, empty, well-shaped or escaped   *)
(* is defined here on its own, not through the code's operators.           *)
(***************************************************************************)
IsContact(r) == req[r].route = "POST /api/contact"

AbsentOrEmpty(v) == ~v.present \/ Len(v.val) = 0

NoSendWork(r) == transports[r] = 0 /\ probes[r] = 0 /\ mails[r] = <<>>

Is400(rsp) == rsp.status = 400 /\ rsp.type = "json" /\ ~rsp.ok

\* C1: a POST /api/contact whose nombre, email or mensaje is absent or empty
\* creates no transport, runs no probe and calls sendMail never, and once the
\* handler has run it has answered 400 with ok:false.
Thm_C1 ==
    \A r \in Reqs :
        (/\ IsContact(r)
         /\ \/ AbsentOrEmpty(req[r].body.nombre)
            \/ AbsentOrEmpty(req[r].body.email)
            \/ AbsentOrEmpty(req[r].body.mensaje))
        => /\ NoSendWork(r)
           /\ pc[r] \in {"idle", "body", "done"}
           /\ handled[r] = 1 => (pc[r] = "done" /\ Is400(resp[r]))

Wit_C1 ==
    \E r \in Reqs :
        /\ IsContact(r) /\ handled[r] = 1 /\ pc[r] = "done"
        /\ AbsentOrEmpty(req[r].body.mensaje)
        /\ ~AbsentOrEmpty(req[r].body.nombre)
        /\ ~AbsentOrEmpty(req[r].body.email)
        /\ Is400(resp[r])

\* local@domain.tld: one "@", no white space, something before the "@", and
\* after it a "." with something on both sides
LocalDomainTld(t) ==
    /\ Cardinality({i \in 1..Len(t) : t[i] = "@"}) = 1
    /\ \A i \in 1..Len(t) : t[i] # " "
    /\ LET at == CHOOSE i \in 1..Len(t) : t[i] = "@"
       IN  /\ at > 1
           /\ \E d \in (at + 2)..(Len(t) - 1) : t[d] = "."

ShapedEmail(v) == v.present /\ LocalDomainTld(trim(v.val))

\* C2: a POST /api/contact whose email does not have the local@domain.tld shape
\* is answered 400 and no send is attempted for it.
Cex_C2 ==
    \A r \in Reqs :
        (IsContact(r) /\ handled[r] = 1 /\ ~ShapedEmail(req[r].body.email))
        => (pc[r] = "done" /\ Is400(resp[r]) /\ NoSendWork(r))

\* what C2 says, of src/server.js alone
ServerJsRejectsBadEmail == build = "server.js" => Cex_C2

\* the allow-list of the running server
AllowList == IF build = "server.js" THEN WHITELIST(env) ELSE Elems(whitelist)

\* C3: a request whose Origin is not in the allow-list is refused before the
\* contact handler runs (no validation, no probe, no send), and a request
\* without Origin reaches the handler.
Cex_C3 ==
    \A r \in Reqs :
        pc[r] # "idle" =>
          /\ (req[r].origin.present /\ req[r].origin.val \notin AllowList)
               => (pc[r] = "done" /\ handled[r] = 0 /\ NoSendWork(r)
                   /\ resp[r].status = 500)
          /\ (~req[r].origin.present /\ IsContact(r) /\ pc[r] = "done")
               => handled[r] = 1

\* the half of C3 that holds: without Origin the request is let through, and an
\* Origin that no allow-list entry is a prefix of is refused
CorsBoundary ==
    \A r \in Reqs :
        pc[r] # "idle" =>
          /\ (req[r].origin.present
              /\ \A w \in AllowList : ~startsWith(req[r].origin.val, w))
               => (pc[r] = "done" /\ handled[r] = 0 /\ NoSendWork(r)
                   /\ resp[r].status = 500)
          /\ (~req[r].origin.present /\ IsContact(r) /\ pc[r] = "done")
               => handled[r] = 1

\* the fields of request r's state
Slot(r) == <<pc[r], req[r], handled[r], validated[r], transports[r], probes[r],
             probeOutcome[r], mails[r], sendOutcome[r], resp[r]>>

SendCountOK ==
    \A r \in Reqs :
        /\ Len(mails[r]) <= 1
        /\ ~validated[r] => Len(mails[r]) = 0
        /\ (validated[r] /\ pc[r] \in {"send", "done"}) => Len(mails[r]) = 1
        /\ pc[r] = "done" => sendOutcome[r].state # "pending"

\* C4: under every interleaving each request calls sendMail at most once, and
\* a request that passed validation has called it exactly once from the
\* settling of its probe on, whatever the probe and the send answered; a step
\* of one request changes nothing of another request.
Thm_C4 ==
    /\ []SendCountOK
    /\ [][\A r \in Reqs : \A s \in Reqs \ {r} :
            Slot(r)' # Slot(r) => Slot(s)' = Slot(s)]_vars

Wit_C4 ==
    \E r \in Reqs : \E s \in Reqs \ {r} :
        /\ pc[r] = "done" /\ validated[r] /\ Len(mails[r]) = 1
        /\ probeOutcome[r] = "failed" /\ sendOutcome[r].state = "error"
        /\ pc[s] = "done" /\ validated[s] /\ Len(mails[s]) = 1
        /\ probeOutcome[s] = "ok" /\ sendOutcome[s].state = "ok"

\* C5: for a submission that passed validation the response tells the outcome
\* of the send: 200 {ok:true, messageId} with the identifier the transport
\* gave, or 500 {ok:false, error} with the message of the error.
Thm_C5 ==
    \A r \in Reqs :
        (validated[r] /\ pc[r] = "done") =>
          /\ sendOutcome[r].state \in {"ok", "error"}
          /\ sendOutcome[r].state = "ok" =>
               /\ resp[r].status = 200 /\ resp[r].type = "json" /\ resp[r].ok
               /\ resp[r].messageId = sendOutcome[r].messageId
          /\ sendOutcome[r].state = "error" =>
               /\ resp[r].status = 500 /\ resp[r].type = "json" /\ ~resp[r].ok
               /\ resp[r].error = <<sendOutcome[r].message>>

Wit_C5 ==
    \E r \in Reqs :
        /\ validated[r] /\ pc[r] = "done"
        /\ sendOutcome[r].state = "error"
        /\ sendOutcome[r].message = "Invalid login"
        /\ resp[r].status = 500

RawMarkup == {"&", "<", ">", "\"", "'"}

Entities == {AmpEntity, LtEntity, GtEntity, QuotEntity, AposEntity}

\* no character of RawMarkup in s but as the "&" that opens an entity
RECURSIVE WellEscaped(_)
WellEscaped(s) ==
    IF s = <<>> THEN TRUE
    ELSE IF \E en \in Entities : startsWith(s, en)
         THEN LET en == CHOOSE x \in Entities : startsWith(s, x)
              IN  WellEscaped(SubSeq(s, Len(en) + 1, Len(s)))
         ELSE Head(s) \notin RawMarkup /\ WellEscaped(Tail(s))

\* the text the entities of s stand for
RECURSIVE Unescaped(_)
Unescaped(s) ==
    IF s = <<>> THEN <<>>
    ELSE IF \E en \in Entities : startsWith(s, en)
         THEN LET en == CHOOSE x \in Entities : startsWith(s, x)
                  ch == CASE en = AmpEntity  -> "&"
                          [] en = LtEntity   -> "<"
                          [] en = GtEntity   -> ">"
                          [] en = QuotEntity -> "\""
                          [] en = AposEntity -> "'"
              IN  <<ch>> \o Unescaped(SubSeq(s, Len(en) + 1, Len(s)))
         ELSE <<Head(s)>> \o Unescaped(Tail(s))

\* the value of a field as the message shows it
Shown(b, field) ==
    CASE field = "nombre"   -> String(b.nombre)
      [] field = "email"    -> String(b.email)
      [] field = "telefono" -> IF AbsentOrEmpty(b.telefono) THEN <<"-">> ELSE b.telefono.val
      [] field = "asunto"   -> IF AbsentOrEmpty(b.asunto) THEN <<"-">> ELSE b.asunto.val
      [] field = "mensaje"  -> String(b.mensaje)

\* C6: in the HTML body of every message handed to sendMail, the text that
\* comes from nombre, email, telefono, asunto and mensaje holds no <, >, &, " or '
\* but as the entity that stands for it.
Cex_C6 ==
    \A r \in Reqs : \A i \in 1..Len(mails[r]) :
        \A k \in 1..Len(mails[r][i].html) :
            LET piece == mails[r][i].html[k]
            IN  piece.field # "" =>
                  /\ WellEscaped(piece.val)
                  /\ Unescaped(piece.val) = Shown(req[r].body, piece.field)

\* what C6 says, of src/server.js alone
ServerJsHtmlEscaped == build = "server.js" => Cex_C6

\* C7: every message handed to sendMail has replyTo equal to the submitter's
\* email and to equal to CONTACT_TO of the configuration.
Thm_C7 ==
    \A r \in Reqs : \A i \in 1..Len(mails[r]) :
        /\ mails[r][i].replyTo = req[r].body.email
        /\ mails[r][i].to = env.CONTACT_TO

Wit_C7 ==
    \E r \in Reqs :
        /\ Len(mails[r]) = 1
        /\ env.CONTACT_TO.present
        /\ req[r].body.email # env.CONTACT_TO
        /\ mails[r][1].to = env.CONTACT_TO
        /\ mails[r][1].replyTo = req[r].body.email

IsHealth(r) == req[r].route = "GET /health"

OkText(rsp) == rsp.status = 200 /\ rsp.type = "text" /\ rsp.text = "ok"

OriginPasses(o) == ~o.present \/ \E w \in AllowList : startsWith(o.val, w)

SubjectWithAsunto(b) ==
    <<"(">> \o b.asunto.val \o <<")", " ", "N","u","e","v","o"," ","m","e","n","s","a","j","e"," ","d","e"," ">>
    \o b.nombre.val

SubjectWithoutAsunto(b) ==
    <<"N","u","e","v","o"," ","m","e","n","s","a","j","e"," ","d","e"," ">> \o b.nombre.val

\* C9 as stated: the subject of the message is "Nuevo mensaje de {nombre}" when
\* asunto is left out of the submission and "({asunto}) Nuevo mensaje de
\* {nombre}" when the submission gives one.
Cex_C9 ==
    \A r \in Reqs : \A i \in 1..Len(mails[r]) :
        mails[r][i].subject =
            IF req[r].body.asunto.present
            THEN SubjectWithAsunto(req[r].body)
            ELSE SubjectWithoutAsunto(req[r].body)

\* C9 amended: the subject is "Nuevo mensaje de {nombre}" when asunto is left
\* out or is the empty string, and "({asunto}) Nuevo mensaje de {nombre}" when
\* asunto is a non-empty string.
Thm_C9 ==
    \A r \in Reqs : \A i \in 1..Len(mails[r]) :
        mails[r][i].subject =
            IF AbsentOrEmpty(req[r].body.asunto)
            THEN SubjectWithoutAsunto(req[r].body)
            ELSE SubjectWithAsunto(req[r].body)

Wit_C9 ==
    \E r \in Reqs :
        /\ Len(mails[r]) = 1
        /\ ~AbsentOrEmpty(req[r].body.asunto)
        /\ mails[r][1].subject = SubjectWithAsunto(req[r].body)

\* C10: the probe is advisory.  A message is handed to sendMail only after the
\* request's one probe has settled; a request whose probe failed has gone on to
\* its send; and two served submissions with the same outcome of the send get
\* the same response, whatever their probes answered.
Thm_C10 ==
    /\ \A r \in Reqs :
          /\ Len(mails[r]) >= 1 => (probes[r] = 1 /\ probeOutcome[r] \in {"ok", "failed"})
          /\ pc[r] = "verify" => (probeOutcome[r] = "pending" /\ mails[r] = <<>>)
          /\ (validated[r] /\ probeOutcome[r] = "failed") =>
                (pc[r] \in {"send", "done"} /\ Len(mails[r]) = 1)
    /\ \A r \in Reqs : \A s \in Reqs :
          (/\ validated[r] /\ pc[r] = "done"
           /\ validated[s] /\ pc[s] = "done"
           /\ sendOutcome[r] = sendOutcome[s]) => resp[r] = resp[s]

Wit_C10 ==
    \E r \in Reqs : \E s \in Reqs :
        /\ validated[r] /\ pc[r] = "done" /\ probeOutcome[r] = "failed"
        /\ validated[s] /\ pc[s] = "done" /\ probeOutcome[s] = "ok"
        /\ sendOutcome[r] = sendOutcome[s]
        /\ sendOutcome[r].state = "ok"
        /\ resp[r] = resp[s] /\ resp[r].status = 200
====
